---- MODULE Spec2Model ----
(***************************************************************************)
(* Model of terraform-provider-coderabbit: the retrying API client         *)
(* (internal/client/client.go) and the seat resource's handlers            *)
(* (internal/resources/seats_resource.go).                                 *)
(*                                                                         *)
(* Every thread runs one call at a time.  A call is a stack of frames: the *)
(* head is the function that runs next, the frames under it are the places *)
(* its callers resume at.  One action is one atomic step of the code: one  *)
(* HTTP attempt of a retry loop, one lock operation, or the straight-line  *)
(* code between two calls.                                                 *)
(***************************************************************************)
EXTENDS Integers, Sequences, FiniteSets, TLC

\* ---------------------------------------------------------------- bounds
NumThreads == 2        \* threads of the orchestrator
NumUsers == 2          \* handles / users known to the identity service
ClientUsers == 1       \* users of the roster when the client is called directly
RetryBound == 2        \* RetryConfig.MaxRetries ranges over 0..RetryBound
SessionRetries == 1    \* RetryConfig.MaxRetries of a session
MaxDuration == 20      \* the largest time.Duration, in the unit of the delays
MaxAttempt == 5        \* calculateBackoff is called with attempt in 0..MaxAttempt

Threads == 1..NumThreads
Handles == 1..NumUsers

\* ------------------------------------------------------------ identities
\* The numeric id the identity service holds for a handle.
GitHubUserID(h) == 41 + h

RECURSIVE Itoa(_)
\* fmt.Sprintf("%d", n) for n >= 0: the decimal digits, as a string.
Itoa(n) == IF n < 10 THEN <<n>> ELSE Itoa(n \div 10) \o <<n % 10>>

IdsOf(hs) == {Itoa(GitHubUserID(h)) : h \in hs}
Ids == IdsOf(Handles)
NoId == <<>>

\* --------------------------------------------------------- retry config
Statuses == {200, 400, 404, 503}

DefaultRetryableStatusCodes == {429, 500, 502, 503, 504}

\* The retry configurations of the model: every retryable set over the
\* modelled statuses, MaxRetries >= 0.
RetryConfigs ==
    [MaxRetries : 0..RetryBound,
     BaseDelay : {1, 2},
     MaxDelay : {3},
     RetryableStatusCodes : SUBSET Statuses]

\* DefaultRetryConfig, with MaxRetries left to the bound.
SessionConfigs ==
    {c \in RetryConfigs :
        /\ c.RetryableStatusCodes = DefaultRetryableStatusCodes \cap Statuses
        /\ c.BaseDelay = 1
        /\ c.MaxRetries = SessionRetries}

isRetryableStatus(c, statusCode) == statusCode \in c.RetryableStatusCodes

RECURSIVE Pow2(_)
Pow2(n) == IF n = 0 THEN 1 ELSE 2 * Pow2(n - 1)

\* time.Duration is a signed integer of fixed width.
MinDuration == -MaxDuration - 1

\* time.Duration(x) for a float64 x: the value when a Duration can hold it;
\* otherwise the result depends on the build: the smallest Duration (amd64)
\* or the nearest one (arm64).
Converted(x) ==
    IF x >= MinDuration /\ x <= MaxDuration THEN {x}
    ELSE {MinDuration, MaxDuration}

\* The delays calculateBackoff(attempt) can return.
calculateBackoff(c, attempt) ==
    {IF delay > c.MaxDelay THEN c.MaxDelay ELSE delay :
        delay \in Converted(c.BaseDelay * Pow2(attempt))}

\* The configurations calculateBackoff is called under: every pair of
\* delays, BaseDelay above MaxDelay included.
BackoffConfigs ==
    [MaxRetries : {0},
     BaseDelay : 1..4,
     MaxDelay : 1..4,
     RetryableStatusCodes : {DefaultRetryableStatusCodes \cap Statuses}]

\* ------------------------------------------------------- upstream roster
SeatStates == {"absent", "unassigned", "assigned"}

RECURSIVE UsersFrom(_, _)
\* The users array of GET /seats/: one record per user the upstream knows.
UsersFrom(up, h) ==
    IF h > NumUsers THEN <<>>
    ELSE LET id == Itoa(GitHubUserID(h))
             rest == UsersFrom(up, h + 1)
         IN  IF id \notin DOMAIN up \/ up[id] = "absent" THEN rest
             ELSE <<[git_user_id |-> id,
                     seat_assigned |-> (up[id] = "assigned")]>> \o rest

Roster(up) == UsersFrom(up, 1)

\* What POST /seats/assign and POST /seats/unassign do to the roster when
\* the upstream applies them.
ApplyUpstream(up, path, id) ==
    IF id \notin DOMAIN up THEN up
    ELSE IF path = "/seats/assign" THEN [up EXCEPT ![id] = "assigned"]
    ELSE IF path = "/seats/unassign"
         THEN [up EXCEPT ![id] = IF @ = "absent" THEN "absent" ELSE "unassigned"]
    ELSE up

\* ------------------------------------------------------ HTTP outcomes
\* One HTTP attempt ends in a transport failure (HTTPClient.Do fails, which
\* includes the 30 s timeout), a body that cannot be read, or a response.
\* A response body is valid JSON for the endpoint or it is not.
NoBody == [valid |-> FALSE, users |-> <<>>, success |-> FALSE, id |-> 0]
SeatsBody(up) == [NoBody EXCEPT !.valid = TRUE, !.users = Roster(up)]
SuccessBody(b) == [NoBody EXCEPT !.valid = TRUE, !.success = b]
UserBody(n) == [NoBody EXCEPT !.valid = TRUE, !.id = n]

Outcome(net, status, body, applied) ==
    [net |-> net, status |-> status, body |-> body, applied |-> applied]

\* The failures an environment produces: the ways an attempt gets no
\* response, and the statuses of the responses.
AllFaults == [nets |-> {"transport", "body"}, statuses |-> Statuses,
              logical |-> TRUE]
\* Of the three transient failures, which take the same branch of the retry
\* loops with another message, a session sees the transport failure.
SessionFaults == [nets |-> {"transport"}, statuses |-> {200, 400, 404},
                  logical |-> TRUE]
\* An upstream that does not fail: every response is a 200 with the body of
\* the endpoint, and says success: true.
NoFaults == [nets |-> {}, statuses |-> {200}, logical |-> FALSE]

Possible(fs, out) ==
    IF out.net = "ok" THEN out.status \in fs.statuses ELSE out.net \in fs.nets

\* The outcomes the upstream can produce for a request.  A POST the client
\* sees failing (no response, unreadable body, 503, unparsable body) may or
\* may not have been applied; success:true is applied, success:false, 400
\* and 404 are not.
AnyOutcome(path, up, handle) ==
    LET post == path \in {"/seats/assign", "/seats/unassign"}
        may == IF post THEN BOOLEAN ELSE {FALSE}
        good == IF path = "/seats/" THEN {Outcome("ok", 200, SeatsBody(up), FALSE)}
                ELSE IF path = "/users/"
                     THEN {Outcome("ok", 200, UserBody(GitHubUserID(handle)), FALSE)}
                ELSE {Outcome("ok", 200, SuccessBody(TRUE), TRUE),
                      Outcome("ok", 200, SuccessBody(FALSE), FALSE)}
    IN  good
        \cup {Outcome(n, 0, NoBody, a) : n \in {"transport", "body"}, a \in may}
        \cup {Outcome("ok", 200, NoBody, a) : a \in may}
        \cup {Outcome("ok", 503, NoBody, a) : a \in may}
        \cup {Outcome("ok", s, NoBody, FALSE) : s \in {400, 404}}

\* The response is the one the endpoint gives when nothing fails.
Clean(path, out) ==
    /\ out.body.valid
    /\ path \in {"/seats/assign", "/seats/unassign"} => out.body.success

Outcomes(path, up, handle, fs) ==
    {out \in AnyOutcome(path, up, handle) :
        Possible(fs, out) /\ (fs.logical \/ Clean(path, out))}


\* ------------------------------------------------------------- state
VARIABLES
    cfg,          \* Client.RetryConfig
    faults,       \* the failures the environment produces
    seats,        \* the upstream roster: id -> SeatStates
    cache,        \* Client.seatsCache: <<>> is nil, <<users>> a snapshot
    readers,      \* threads holding seatsCacheMu for reading
    writer,       \* the thread holding seatsCacheMu for writing, or 0
    op,           \* per thread: the top-level call it runs, or "idle"
    stack,        \* per thread: the frames of the call, innermost first
    loc,          \* per thread: the local variables of the frames
    ret,          \* per thread: what the last returned function returned
    resp,         \* per thread: the handler's response (State, Diagnostics)
    state,        \* per handle: the resource's stored state
    g,            \* per thread: history of the current request and call
    hist,         \* per handle: the previous Create on it failed
    late          \* per roster copy: the threads whose change it misses

vars == <<cfg, faults, seats, cache, readers, writer, op, stack, loc, ret, resp,
          state, g, hist, late>>

NoState == [present |-> FALSE, id |-> NoId, github_id |-> 0, git_user_id |-> NoId]
NoResp == [state |-> NoState, diag |-> <<>>]
NoLoc == [handle |-> 0, path |-> "", attempt |-> 0, lastErr |-> <<>>,
          gitUserID |-> NoId, data |-> NoState]
NoRet == [ok |-> TRUE, err |-> <<>>, body |-> NoBody, id |-> NoId,
          users |-> <<>>, has |-> FALSE, delay |-> 0]
ErrRet(e) == [NoRet EXCEPT !.ok = FALSE, !.err = e]
NoOutcome == Outcome("none", 0, NoBody, FALSE)
NoG == [fn |-> "", done |-> FALSE, attempts |-> 0, sleeps |-> <<>>,
        transient |-> 0, last |-> NoOutcome,
        assigns |-> 0, unassigns |-> 0, assignedAtCall |-> FALSE,
        posts |-> 0, fetches |-> 0, startedEmpty |-> FALSE, roster |-> <<>>,
        peers |-> {}, cleared |-> FALSE,
        seatBefore |-> "", created |-> 0, afterCreate |-> FALSE]

UpstreamStates(ids) == [ids -> SeatStates]

\* The copies of the roster the client holds: the cache (0), and the
\* response a thread has read and not yet stored.  late[x] is the set of
\* threads whose assign or unassign the upstream applied after copy x was
\* read.
Copies == {0} \cup Threads

InitCommon ==
    /\ cache = <<>>
    /\ readers = {}
    /\ writer = 0
    /\ op = [t \in Threads |-> "idle"]
    /\ stack = [t \in Threads |-> <<>>]
    /\ loc = [t \in Threads |-> NoLoc]
    /\ ret = [t \in Threads |-> NoRet]
    /\ resp = [t \in Threads |-> NoResp]
    /\ g = [t \in Threads |-> NoG]
    /\ hist = [h \in Handles |-> FALSE]
    /\ late = [x \in Copies |-> {}]

\* ------------------------------------------------------- frame helpers
Top(t) == IF stack[t] = <<>> THEN "" ELSE Head(stack[t])
Idle(t) == op[t] = "idle"
Finished(t) == op[t] # "idle" /\ stack[t] = <<>>

\* Copy x holds a roster: the cache when it is set, a thread from the
\* response of its roster request until GetSeats has dealt with it.
Holds(x) ==
    IF x = 0 THEN cache # <<>> ELSE Top(x) = "GetSeats:afterRequest"

\* The running function returns r to its caller.
ReturnWith(t, r) ==
    /\ stack' = [stack EXCEPT ![t] = Tail(@)]
    /\ ret' = [ret EXCEPT ![t] = r]

\* The running frame is replaced by the frames fs (a call, and the place to
\* resume at).
Goto(t, fs) ==
    /\ stack' = [stack EXCEPT ![t] = fs \o Tail(@)]
    /\ ret' = [ret EXCEPT ![t] = NoRet]

\* The history of a request ends when its caller has looked at the result.
Forget(h) ==
    [h EXCEPT !.fn = "", !.done = FALSE, !.attempts = 0, !.sleeps = <<>>,
              !.transient = 0, !.last = NoOutcome]

\* ------------------------------------------------------ the retry loops
\* Mutant of doRequestStep: every status >= 400 is retried.
doRequestStepRetryAnyError(c, out) ==
    IF out.net = "transport"
    THEN [next |-> "continue", r |-> ErrRet(<<"failed to perform request">>)]
    ELSE IF out.net = "body"
    THEN [next |-> "continue", r |-> ErrRet(<<"failed to read response body">>)]
    ELSE IF isRetryableStatus(c, out.status) \/ out.status >= 400
    THEN [next |-> "continue", r |-> ErrRet(<<"API error (status)">>)]
    ELSE [next |-> "return", r |-> [NoRet EXCEPT !.body = out.body]]

\* What one iteration of doRequest's loop does with the outcome of its HTTP
\* call: continue with a recorded error, or return.
doRequestStep(c, out) ==
    IF out.net = "transport"
    THEN [next |-> "continue", r |-> ErrRet(<<"failed to perform request">>)]
    ELSE IF out.net = "body"
    THEN [next |-> "continue", r |-> ErrRet(<<"failed to read response body">>)]
    ELSE IF isRetryableStatus(c, out.status)
    THEN [next |-> "continue", r |-> ErrRet(<<"API error (status)">>)]
    ELSE IF out.status >= 400
    THEN [next |-> "return", r |-> ErrRet(<<"API error (status)">>)]
    ELSE [next |-> "return", r |-> [NoRet EXCEPT !.body = out.body]]

\* Mutant of GetGitUserIDStep: the retryable statuses are tested before 404.
GetGitUserIDStepRetryFirst(c, out) ==
    IF out.net = "transport"
    THEN [next |-> "continue",
          r |-> ErrRet(<<"failed to perform GitHub API request">>)]
    ELSE IF out.net = "body"
    THEN [next |-> "continue",
          r |-> ErrRet(<<"failed to read GitHub API response">>)]
    ELSE IF isRetryableStatus(c, out.status)
    THEN [next |-> "continue", r |-> ErrRet(<<"GitHub API error (status)">>)]
    ELSE IF out.status = 404
    THEN [next |-> "return", r |-> ErrRet(<<"GitHub user not found">>)]
    ELSE IF out.status >= 400
    THEN [next |-> "return", r |-> ErrRet(<<"GitHub API error (status)">>)]
    ELSE IF ~out.body.valid
    THEN [next |-> "return",
          r |-> ErrRet(<<"failed to parse GitHub API response">>)]
    ELSE [next |-> "return", r |-> [NoRet EXCEPT !.id = Itoa(out.body.id)]]

\* The same for GetGitUserID's loop.
GetGitUserIDStep(c, out) ==
    IF out.net = "transport"
    THEN [next |-> "continue",
          r |-> ErrRet(<<"failed to perform GitHub API request">>)]
    ELSE IF out.net = "body"
    THEN [next |-> "continue",
          r |-> ErrRet(<<"failed to read GitHub API response">>)]
    ELSE IF out.status = 404
    THEN [next |-> "return", r |-> ErrRet(<<"GitHub user not found">>)]
    ELSE IF isRetryableStatus(c, out.status)
    THEN [next |-> "continue", r |-> ErrRet(<<"GitHub API error (status)">>)]
    ELSE IF out.status >= 400
    THEN [next |-> "return", r |-> ErrRet(<<"GitHub API error (status)">>)]
    ELSE IF ~out.body.valid
    THEN [next |-> "return",
          r |-> ErrRet(<<"failed to parse GitHub API response">>)]
    ELSE [next |-> "return", r |-> [NoRet EXCEPT !.id = Itoa(out.body.id)]]

\* Mutant of LoopContinues: one attempt too many.
LoopContinuesOnceMore(c, attempt) == attempt <= c.MaxRetries + 1

\* The loop condition after `continue`: attempt <= MaxRetries.
LoopContinues(c, attempt) == attempt <= c.MaxRetries

\* The error returned when the loop runs out of attempts.
Exhausted(fn, lastErr) ==
    ErrRet(<<IF fn = "doRequest" THEN "request failed after retries"
             ELSE "GitHub API request failed after retries">> \o lastErr)

\* The claim's notion of a transient outcome, for the history only.
Transient(c, out) ==
    \/ out.net \in {"transport", "body"}
    \/ out.status \in c.RetryableStatusCodes

\* Mutant of Backoff: the delay of the attempt, not of the one before it.
BackoffOfAttempt(c, attempt) ==
    IF attempt > 0 THEN {<<d>> : d \in calculateBackoff(c, attempt)}
    ELSE {<<>>}

\* The sleep before a retry: none before the first attempt.
Backoff(c, attempt) ==
    IF attempt > 0 THEN {<<d>> : d \in calculateBackoff(c, attempt - 1)}
    ELSE {<<>>}

\* One iteration of a retry loop by thread t, with the upstream answering
\* out: the sleep (if this is a retry), the HTTP call and its effect on the
\* upstream, and the branch taken on the outcome.
Attempt(t, fn, out, step) ==
    LET attempt == loc[t].attempt
        goOn == step.next = "continue" /\ LoopContinues(cfg, attempt + 1)
        result == IF step.next = "return" THEN step.r
                  ELSE Exhausted(fn, step.r.err)
        h == IF attempt = 0
             THEN [Forget(g[t]) EXCEPT !.fn = fn]
             ELSE g[t]
    IN  /\ seats' = IF out.applied
                    THEN ApplyUpstream(seats, loc[t].path, loc[t].gitUserID)
                    ELSE seats
        /\ late' = [x \in Copies |->
                      IF x = t THEN {}
                      ELSE IF out.applied /\ Holds(x) THEN late[x] \cup {t}
                      ELSE late[x]]
        /\ \E slept \in Backoff(cfg, attempt) :
             g' = [g EXCEPT ![t] =
                    [h EXCEPT !.attempts = @ + 1,
                              !.sleeps = @ \o slept,
                              !.transient = IF Transient(cfg, out) THEN @ + 1 ELSE @,
                              !.last = out,
                              !.posts = IF fn = "doRequest" /\ loc[t].path # "/seats/"
                                        THEN @ + 1 ELSE @,
                              !.done = ~goOn]]
        /\ IF goOn
           THEN /\ loc' = [loc EXCEPT ![t].attempt = attempt + 1,
                                      ![t].lastErr = step.r.err]
                /\ UNCHANGED <<stack, ret>>
           ELSE /\ loc' = [loc EXCEPT ![t].attempt = 0, ![t].lastErr = <<>>]
                /\ ReturnWith(t, result)
        /\ UNCHANGED <<cfg, faults, cache, readers, writer, op, resp, state, hist>>

DoRequestAttempt(t) ==
    /\ Top(t) = "doRequest"
    /\ \E out \in Outcomes(loc[t].path, seats, loc[t].handle, faults) :
          Attempt(t, "doRequest", out, doRequestStep(cfg, out))

GetGitUserIDAttempt(t) ==
    /\ Top(t) = "GetGitUserID"
    /\ \E out \in Outcomes("/users/", seats, loc[t].handle, faults) :
          Attempt(t, "GetGitUserID", out, GetGitUserIDStep(cfg, out))

\* ------------------------------------------------- calls and returns
\* The direct calls of GetSeats and HasSeat, and the threads in one.
Getters == {"GetSeats", "HasSeat"}
Getting(u) == op[u] \in Getters /\ ~Finished(u)

ResourceOps == {"Create", "Read", "Update", "Delete", "ImportState"}

\* history: the state of the seat of a handler's resource when it starts,
\* which is the state it would be in without the handler's own calls
SeatBefore(name, l) ==
    IF name \in ResourceOps THEN seats[Itoa(GitHubUserID(l.handle))] ELSE ""

\* Thread t starts the top-level call `name` with frames fs, locals l and
\* response r.
Start(t, name, fs, l, r) ==
    /\ Idle(t)
    /\ op' = [op EXCEPT ![t] = name]
    /\ stack' = [stack EXCEPT ![t] = fs]
    /\ loc' = [loc EXCEPT ![t] = l]
    /\ resp' = [resp EXCEPT ![t] = r]
    /\ ret' = [ret EXCEPT ![t] = NoRet]
    /\ g' = [u \in Threads |->
                IF u = t
                THEN [NoG EXCEPT !.startedEmpty = (cache = <<>>),
                                 !.seatBefore = SeatBefore(name, l),
                                 !.afterCreate = (/\ name = "Read"
                                                  /\ g[t].created = l.handle),
                                 !.peers = IF name \in Getters
                                           THEN {v \in Threads \ {t} : Getting(v)}
                                           ELSE {}]
                ELSE IF name \in Getters /\ Getting(u)
                THEN [g[u] EXCEPT !.peers = @ \cup {t}]
                ELSE g[u]]
    /\ late' = [x \in Copies |-> late[x] \ {t}]
    /\ UNCHANGED <<cfg, faults, seats, cache, readers, writer, state, hist>>

\* The stored state the framework keeps when a handler returns: the
\* response's State; after a Delete without error diagnostics, none.
Persisted(name, r) ==
    IF name = "Delete" /\ r.diag = <<>> THEN NoState ELSE r.state

\* history: the handle of the Create that returns without error, having
\* started with the seat not assigned.
Created(t) ==
    IF /\ op[t] = "Create" /\ resp[t].diag = <<>>
       /\ g[t].seatBefore # "assigned"
    THEN loc[t].handle ELSE 0

\* The finished top-level call returns to the orchestrator.
Return(t) ==
    /\ Finished(t)
    /\ op' = [op EXCEPT ![t] = "idle"]
    /\ loc' = [loc EXCEPT ![t] = NoLoc]
    /\ ret' = [ret EXCEPT ![t] = NoRet]
    /\ resp' = [resp EXCEPT ![t] = NoResp]
    /\ g' = [g EXCEPT ![t] = [NoG EXCEPT !.created = Created(t)]]
    /\ IF op[t] \in ResourceOps
       THEN /\ state' = [state EXCEPT ![loc[t].handle] = Persisted(op[t], resp[t])]
            /\ hist' = [hist EXCEPT ![loc[t].handle] =
                          IF op[t] = "Create" THEN resp[t].diag # <<>> ELSE @]
       ELSE UNCHANGED <<state, hist>>
    /\ UNCHANGED <<cfg, faults, seats, cache, readers, writer, stack, late>>

\* ------------------------------------------------------ the seat cache
\* return of GetSeats, and of the functions that end by returning its result
OkRet == NoRet

\* GetSeats: c.seatsCacheMu.RLock()
GetSeatsRLock(t) ==
    /\ Top(t) = "GetSeats"
    /\ writer = 0
    /\ readers' = readers \cup {t}
    /\ Goto(t, <<"GetSeats:rlocked">>)
    /\ UNCHANGED <<cfg, faults, seats, cache, writer, op, loc, resp, state, g,
                   hist, late>>

\* Mutant of GetSeatsReadCache: the cache is not consulted, the roster is
\* fetched.
GetSeatsReadCacheFetches(t) ==
    /\ Top(t) = "GetSeats:rlocked"
    /\ readers' = readers \ {t}
    /\ Goto(t, <<"doRequest", "GetSeats:afterRequest">>)
    /\ loc' = [loc EXCEPT ![t].path = "/seats/"]
    /\ g' = [g EXCEPT ![t].fetches = @ + 1]
    /\ UNCHANGED <<cfg, faults, seats, cache, writer, op, resp, state, hist,
                   late>>

\* GetSeats: the optimistic read, and RUnlock.
GetSeatsReadCache(t) ==
    /\ Top(t) = "GetSeats:rlocked"
    /\ readers' = readers \ {t}
    /\ IF cache # <<>>
       THEN ReturnWith(t, [OkRet EXCEPT !.users = cache])
       ELSE Goto(t, <<"GetSeats:lock">>)
    /\ UNCHANGED <<cfg, faults, seats, cache, writer, op, loc, resp, state, g, hist,
                   late>>

\* Mutant of GetSeatsLock: the lock is taken without waiting for it.
GetSeatsLockNoWait(t) ==
    /\ Top(t) = "GetSeats:lock"
    /\ writer' = t
    /\ Goto(t, <<"GetSeats:locked">>)
    /\ UNCHANGED <<cfg, faults, seats, cache, readers, op, loc, resp, state, g,
                   hist, late>>

\* GetSeats: c.seatsCacheMu.Lock()
GetSeatsLock(t) ==
    /\ Top(t) = "GetSeats:lock"
    /\ writer = 0
    /\ readers = {}
    /\ writer' = t
    /\ Goto(t, <<"GetSeats:locked">>)
    /\ UNCHANGED <<cfg, faults, seats, cache, readers, op, loc, resp, state, g,
                   hist, late>>

\* Mutant of InvalidateClear: the lock is released with the cache as it was.
InvalidateClearKeeps(t) ==
    /\ Top(t) = "InvalidateSeatsCache:locked"
    /\ writer' = 0
    /\ ReturnWith(t, NoRet)
    /\ UNCHANGED <<cfg, faults, seats, cache, readers, op, loc, resp, state, g,
                   hist, late>>

\* Mutant of GetSeatsRecheck: no second check, the roster is fetched.
GetSeatsRecheckSkipped(t) ==
    /\ Top(t) = "GetSeats:locked"
    /\ Goto(t, <<"doRequest", "GetSeats:afterRequest">>)
    /\ loc' = [loc EXCEPT ![t].path = "/seats/"]
    /\ g' = [g EXCEPT ![t].fetches = @ + 1]
    /\ UNCHANGED <<cfg, faults, seats, cache, readers, writer, op, resp, state,
                   hist, late>>

\* GetSeats: the second check under the write lock; on a miss, the call of
\* doRequest(GET, "/seats/").
GetSeatsRecheck(t) ==
    /\ Top(t) = "GetSeats:locked"
    /\ IF cache # <<>>
       THEN /\ ReturnWith(t, [OkRet EXCEPT !.users = cache])
            /\ writer' = 0
            /\ UNCHANGED <<loc, g>>
       ELSE /\ Goto(t, <<"doRequest", "GetSeats:afterRequest">>)
            /\ loc' = [loc EXCEPT ![t].path = "/seats/"]
            /\ g' = [g EXCEPT ![t].fetches = @ + 1]
            /\ UNCHANGED writer
    /\ UNCHANGED <<cfg, faults, seats, cache, readers, op, resp, state, hist, late>>

\* Mutant of StoreSeats: what was unmarshalled is stored, error or not.
StoreSeatsUnchecked(r, old) == <<r.body.users>>

\* What GetSeats stores in the cache when doRequest has returned r.
StoreSeats(r, old) ==
    IF r.ok /\ r.body.valid THEN <<r.body.users>> ELSE old

\* Mutant of GetSeatsStore: the error returns skip the Unlock.
GetSeatsStoreUnlockOnSuccess(t) ==
    /\ Top(t) = "GetSeats:afterRequest"
    /\ writer' = IF ret[t].ok /\ ret[t].body.valid THEN 0 ELSE writer
    /\ cache' = StoreSeats(ret[t], cache)
    /\ late' = [late EXCEPT ![0] = IF cache' # cache THEN late[t] ELSE @,
                            ![t] = {}]
    /\ ReturnWith(t, IF ~ret[t].ok THEN ret[t]
                     ELSE IF ~ret[t].body.valid
                     THEN ErrRet(<<"failed to unmarshal response">>)
                     ELSE [OkRet EXCEPT !.users = <<ret[t].body.users>>])
    /\ g' = [g EXCEPT ![t] = Forget(@)]
    /\ UNCHANGED <<cfg, faults, seats, readers, op, loc, resp, state, hist>>

\* GetSeats: after doRequest: the error returns, or the unmarshalled roster
\* is stored and returned; the deferred Unlock.
GetSeatsStore(t) ==
    /\ Top(t) = "GetSeats:afterRequest"
    /\ writer' = 0
    /\ cache' = StoreSeats(ret[t], cache)
    /\ late' = [late EXCEPT ![0] = IF cache' # cache THEN late[t] ELSE @,
                            ![t] = {}]
    /\ ReturnWith(t, IF ~ret[t].ok THEN ret[t]
                     ELSE IF ~ret[t].body.valid
                     THEN ErrRet(<<"failed to unmarshal response">>)
                     ELSE [OkRet EXCEPT !.users = <<ret[t].body.users>>])
    /\ g' = [g EXCEPT ![t] = Forget(@)]
    /\ UNCHANGED <<cfg, faults, seats, readers, op, loc, resp, state, hist>>

\* InvalidateSeatsCache: c.seatsCacheMu.Lock()
InvalidateLock(t) ==
    /\ Top(t) = "InvalidateSeatsCache"
    /\ writer = 0
    /\ readers = {}
    /\ writer' = t
    /\ Goto(t, <<"InvalidateSeatsCache:locked">>)
    /\ UNCHANGED <<cfg, faults, seats, cache, readers, op, loc, resp, state, g,
                   hist, late>>

\* InvalidateSeatsCache: c.seatsCache = nil, and the deferred Unlock.  When
\* AssignSeat or UnassignSeat called it, they return nil right after it.
InvalidateClear(t) ==
    /\ Top(t) = "InvalidateSeatsCache:locked"
    /\ cache' = <<>>
    /\ late' = [late EXCEPT ![0] = {}]
    /\ writer' = 0
    /\ ReturnWith(t, OkRet)
    /\ g' = [u \in Threads |->
                IF u # t /\ Getting(u) THEN [g[u] EXCEPT !.cleared = TRUE] ELSE g[u]]
    /\ UNCHANGED <<cfg, faults, seats, readers, op, loc, resp, state, hist>>

\* What AssignSeat and UnassignSeat do with doRequest's result r: the error
\* they return, or <<>> to go on to InvalidateSeatsCache.
MutationError(r, failed) ==
    IF ~r.ok THEN r.err
    ELSE IF ~r.body.valid THEN <<"failed to unmarshal response">>
    ELSE IF ~r.body.success THEN <<failed>>
    ELSE <<>>

\* Mutant of AfterMutation: the cache is not invalidated.
AfterMutationKeepCache(t, failed) ==
    LET e == MutationError(ret[t], failed)
    IN  /\ ReturnWith(t, IF e # <<>> THEN ErrRet(e) ELSE OkRet)
        /\ g' = [g EXCEPT ![t] = Forget(@)]
        /\ UNCHANGED <<cfg, faults, seats, cache, readers, writer, op, loc, resp,
                       state, hist, late>>

\* Mutant of AfterMutation: the cache is invalidated whatever the result.
AfterMutationAlwaysInvalidates(t, failed) ==
    /\ Goto(t, <<"InvalidateSeatsCache">>)
    /\ g' = [g EXCEPT ![t] = Forget(@)]
    /\ UNCHANGED <<cfg, faults, seats, cache, readers, writer, op, loc, resp,
                   state, hist, late>>

\* AssignSeat / UnassignSeat after doRequest.
AfterMutation(t, failed) ==
    LET e == MutationError(ret[t], failed)
    IN  /\ IF e # <<>>
           THEN ReturnWith(t, ErrRet(e))
           ELSE Goto(t, <<"InvalidateSeatsCache">>)
        /\ g' = [g EXCEPT ![t] = Forget(@)]
        /\ UNCHANGED <<cfg, faults, seats, cache, readers, writer, op, loc, resp,
                       state, hist, late>>

AssignSeatAfterRequest(t) ==
    /\ Top(t) = "AssignSeat:afterRequest"
    /\ AfterMutation(t, "seat assignment failed")

UnassignSeatAfterRequest(t) ==
    /\ Top(t) = "UnassignSeat:afterRequest"
    /\ AfterMutation(t, "seat unassignment failed")

RECURSIVE HasSeatScanAnyUser(_, _, _)
\* Mutant of HasSeatScan: the seat of any user counts.
HasSeatScanAnyUser(users, gitUserID, i) ==
    IF i > Len(users) THEN FALSE
    ELSE IF users[i].seat_assigned THEN TRUE
    ELSE HasSeatScanAnyUser(users, gitUserID, i + 1)

RECURSIVE HasSeatScanListed(_, _, _)
\* Mutant of HasSeatScan: a record of the id counts, assigned or not.
HasSeatScanListed(users, gitUserID, i) ==
    IF i > Len(users) THEN FALSE
    ELSE IF users[i].git_user_id = gitUserID THEN TRUE
    ELSE HasSeatScanListed(users, gitUserID, i + 1)

RECURSIVE HasSeatScan(_, _, _)
\* HasSeat's loop over seats.Users, from index i.
HasSeatScan(users, gitUserID, i) ==
    IF i > Len(users) THEN FALSE
    ELSE IF users[i].git_user_id = gitUserID /\ users[i].seat_assigned THEN TRUE
    ELSE HasSeatScan(users, gitUserID, i + 1)

\* HasSeat after GetSeats.
HasSeatAfterGetSeats(t) ==
    /\ Top(t) = "HasSeat:afterGetSeats"
    /\ ReturnWith(t, IF ~ret[t].ok THEN ret[t]
                     ELSE [ret[t] EXCEPT
                             !.has = HasSeatScan(ret[t].users[1], loc[t].gitUserID, 1)])
    /\ UNCHANGED <<cfg, faults, seats, cache, readers, writer, op, loc, resp, state,
                   g, hist, late>>

\* The frames of a call of each client function.
HasSeatCall == <<"GetSeats", "HasSeat:afterGetSeats">>
AssignSeatCall == <<"doRequest", "AssignSeat:afterRequest">>
UnassignSeatCall == <<"doRequest", "UnassignSeat:afterRequest">>

\* The steps of the client, whoever called it.
ClientStep(t) ==
    \/ DoRequestAttempt(t)
    \/ GetSeatsRLock(t)
    \/ GetSeatsReadCache(t)
    \/ GetSeatsLock(t)
    \/ GetSeatsRecheck(t)
    \/ GetSeatsStore(t)
    \/ InvalidateLock(t)
    \/ InvalidateClear(t)
    \/ AssignSeatAfterRequest(t)
    \/ UnassignSeatAfterRequest(t)
    \/ HasSeatAfterGetSeats(t)

\* ---------------------------------------- the client called directly
CallGetSeats(t) == Start(t, "GetSeats", <<"GetSeats">>, NoLoc, NoResp)

CallInvalidateSeatsCache(t) ==
    Start(t, "InvalidateSeatsCache", <<"InvalidateSeatsCache">>, NoLoc, NoResp)

CallAssignSeat(t) ==
    \E id \in DOMAIN seats :
        Start(t, "AssignSeat", AssignSeatCall,
              [NoLoc EXCEPT !.path = "/seats/assign", !.gitUserID = id], NoResp)

CallUnassignSeat(t) ==
    \E id \in DOMAIN seats :
        Start(t, "UnassignSeat", UnassignSeatCall,
              [NoLoc EXCEPT !.path = "/seats/unassign", !.gitUserID = id], NoResp)

CallHasSeat(t) ==
    \E id \in DOMAIN seats :
        Start(t, "HasSeat", HasSeatCall, [NoLoc EXCEPT !.gitUserID = id], NoResp)

InitClient ==
    /\ InitCommon
    /\ cfg \in SessionConfigs
    /\ faults = SessionFaults
    /\ seats \in UpstreamStates(IdsOf(1..ClientUsers))
    /\ state = [h \in Handles |-> NoState]

NextClient ==
    \E t \in Threads :
        \/ CallGetSeats(t)
        \/ CallInvalidateSeatsCache(t)
        \/ CallAssignSeat(t)
        \/ CallUnassignSeat(t)
        \/ CallHasSeat(t)
        \/ ClientStep(t)
        \/ Return(t)

SpecClient == InitClient /\ [][NextClient]_vars

\* The steps that wait for seatsCacheMu.
LockStep(t) == GetSeatsRLock(t) \/ GetSeatsLock(t) \/ InvalidateLock(t)

\* The scheduling of the direct calls.  A goroutine that can take a step
\* takes it: each HTTP attempt returns or times out (http.Client.Timeout),
\* each sleep ends.  sync.RWMutex does not starve: a blocked Lock keeps new
\* readers out until the writer has had the lock, and a released lock goes
\* to a waiter, so a goroutine that finds the lock free again and again gets
\* it.  Nothing obliges a caller to start a call or to pick up a result.
\* The environment of the fair runs: an attempt gets no response, a
\* permanent status, or a 200 whose body parses or does not.
FairFaults == [nets |-> {"transport"}, statuses |-> {200, 404},
               logical |-> TRUE]

InitFair ==
    /\ InitCommon
    /\ cfg \in SessionConfigs
    /\ faults = FairFaults
    /\ seats \in UpstreamStates(IdsOf(1..ClientUsers))
    /\ state = [h \in Handles |-> NoState]

SpecClientFair ==
    /\ InitFair /\ [][NextClient]_vars
    /\ \A t \in Threads : SF_vars(ClientStep(t))

\* ------------------------------------------------ the seat resource
Tracked(h, id) ==
    [present |-> TRUE, id |-> id, github_id |-> h, git_user_id |-> id]

\* The stored states a session starts from: each resource is tracked, with
\* the id its handle resolved to, or not.
StoredStates ==
    {st \in [Handles -> {NoState} \cup {Tracked(h, Itoa(GitHubUserID(h))) : h \in Handles}] :
        \A h \in Handles : st[h].present => st[h].github_id = h}

\* No other thread runs a handler on the resource of handle h: the
\* orchestrator serializes the operations on one resource.
Free(h) == \A u \in Threads : ~(op[u] \in ResourceOps /\ loc[u].handle = h)

\* Mutant of Fail: the state is written before the error is looked at.
FailAfterStateSet(t, e) ==
    /\ resp' = [resp EXCEPT ![t].diag = Append(@, e),
                            ![t].state = Tracked(loc[t].handle, loc[t].gitUserID)]
    /\ stack' = [stack EXCEPT ![t] = <<>>]
    /\ ret' = [ret EXCEPT ![t] = NoRet]

\* The handler ends with the error diagnostic e.
Fail(t, e) ==
    /\ resp' = [resp EXCEPT ![t].diag = Append(@, e)]
    /\ stack' = [stack EXCEPT ![t] = <<>>]
    /\ ret' = [ret EXCEPT ![t] = NoRet]

\* The handler ends after writing the response state st.
Succeed(t, st) ==
    /\ resp' = [resp EXCEPT ![t].state = st]
    /\ stack' = [stack EXCEPT ![t] = <<>>]
    /\ ret' = [ret EXCEPT ![t] = NoRet]

\* Create: the plan is read and GetGitUserID(githubID) called.
StartCreate(t) ==
    \E h \in Handles :
        /\ ~state[h].present
        /\ Free(h)
        /\ Start(t, "Create", <<"GetGitUserID", "Create:resolved">>,
                 [NoLoc EXCEPT !.handle = h], NoResp)

\* Create after GetGitUserID: the error diagnostic, or HasSeat(gitUserID).
CreateResolved(t) ==
    /\ Top(t) = "Create:resolved"
    /\ IF ~ret[t].ok
       THEN Fail(t, "Error Resolving GitHub User ID") /\ UNCHANGED loc
       ELSE /\ Goto(t, HasSeatCall \o <<"Create:checked">>)
            /\ loc' = [loc EXCEPT ![t].gitUserID = ret[t].id]
            /\ UNCHANGED resp
    /\ g' = [g EXCEPT ![t] = Forget(@)]
    /\ UNCHANGED <<cfg, faults, seats, cache, readers, writer, op, state,
                   hist, late>>

\* Mutant of CreateBranch: the seat is assigned whatever the roster says.
CreateBranchAlways(r) == IF ~r.ok THEN "error" ELSE "assign"

\* What Create does with HasSeat's result r.
CreateBranch(r) ==
    IF ~r.ok THEN "error" ELSE IF r.has THEN "skip" ELSE "assign"

\* Create after HasSeat: the error diagnostic, the state recorded without a
\* call when the seat is assigned already, or AssignSeat(gitUserID).
CreateChecked(t) ==
    /\ Top(t) = "Create:checked"
    /\ LET b == CreateBranch(ret[t])
       IN  /\ IF b = "error"
              THEN Fail(t, "Error Checking Seat Assignment") /\ UNCHANGED loc
              ELSE IF b = "skip"
              THEN /\ Succeed(t, Tracked(loc[t].handle, loc[t].gitUserID))
                   /\ UNCHANGED loc
              ELSE /\ Goto(t, AssignSeatCall \o <<"Create:assigned">>)
                   /\ loc' = [loc EXCEPT ![t].path = "/seats/assign"]
                   /\ UNCHANGED resp
           /\ g' = [g EXCEPT ![t].roster = ret[t].users,
                             ![t].assigns = IF b = "assign" THEN @ + 1 ELSE @,
                             ![t].assignedAtCall =
                                 b = "assign" /\ seats[loc[t].gitUserID] = "assigned"]
    /\ UNCHANGED <<cfg, faults, seats, cache, readers, writer, op, state,
                   hist, late>>

\* Mutant of CreateAssigned: the state is recorded whatever AssignSeat
\* returned.
CreateAssignedIgnoresError(t) ==
    /\ Top(t) = "Create:assigned"
    /\ Succeed(t, Tracked(loc[t].handle, loc[t].gitUserID))
    /\ UNCHANGED <<cfg, faults, seats, cache, readers, writer, op, loc, state,
                   g, hist, late>>

\* Create after AssignSeat: the error diagnostic, or the state recorded.
CreateAssigned(t) ==
    /\ Top(t) = "Create:assigned"
    /\ IF ~ret[t].ok
       THEN Fail(t, "Error Assigning Seat")
       ELSE Succeed(t, Tracked(loc[t].handle, loc[t].gitUserID))
    /\ UNCHANGED <<cfg, faults, seats, cache, readers, writer, op, loc, state,
                   g, hist, late>>

\* Read: the stored state is read and HasSeat(gitUserID) called.
StartRead(t) ==
    \E h \in Handles :
        /\ state[h].present
        /\ Free(h)
        /\ Start(t, "Read", HasSeatCall \o <<"Read:checked">>,
                 [NoLoc EXCEPT !.handle = h, !.gitUserID = state[h].git_user_id],
                 [NoResp EXCEPT !.state = state[h]])

\* Mutant of ReadBranch: a resource without a seat is kept.
ReadBranchKeep(r) == IF ~r.ok THEN "error" ELSE "keep"

\* What Read does with HasSeat's result r.
ReadBranch(r) ==
    IF ~r.ok THEN "error" ELSE IF ~r.has THEN "remove" ELSE "keep"

\* Mutant of ReadChecked: a resource found without a seat is removed from
\* the state and its seat unassigned upstream.
ReadCheckedUnassigns(t) ==
    /\ Top(t) = "Read:checked"
    /\ LET b == ReadBranch(ret[t])
       IN  IF b = "error"
           THEN Fail(t, "Error Reading Seat Assignment") /\ UNCHANGED loc
           ELSE IF b = "remove"
           THEN /\ resp' = [resp EXCEPT ![t].state = NoState]
                /\ Goto(t, UnassignSeatCall)
                /\ loc' = [loc EXCEPT ![t].path = "/seats/unassign"]
           ELSE Succeed(t, resp[t].state) /\ UNCHANGED loc
    /\ g' = [g EXCEPT ![t].roster = ret[t].users]
    /\ UNCHANGED <<cfg, faults, seats, cache, readers, writer, op, state,
                   hist, late>>

\* Read after HasSeat: the error diagnostic, the resource removed from the
\* state when it has no seat, or the state written back.
ReadChecked(t) ==
    /\ Top(t) = "Read:checked"
    /\ LET b == ReadBranch(ret[t])
       IN  IF b = "error"
           THEN Fail(t, "Error Reading Seat Assignment")
           ELSE IF b = "remove"
           THEN Succeed(t, NoState)
           ELSE Succeed(t, resp[t].state)
    /\ g' = [g EXCEPT ![t].roster = ret[t].users]
    /\ UNCHANGED <<cfg, faults, seats, cache, readers, writer, op, loc, state,
                   hist, late>>

\* The plans Update can be given for the resource of handle h: the
\* computed attributes are those of the prior state, github_id is the
\* configuration's.
Plans(h) == {[state[h] EXCEPT !.github_id = h2] : h2 \in Handles}

\* Mutant of Update: the prior state is kept and the plan dropped.
UpdateKeepsState(t) ==
    \E h \in Handles : \E plan \in Plans(h) :
        /\ state[h].present
        /\ Free(h)
        /\ Start(t, "Update", <<>>, [NoLoc EXCEPT !.handle = h, !.data = plan],
                 [NoResp EXCEPT !.state = state[h]])

\* Update: req.Plan.Get reads the plan into data, resp.State.Set writes
\* data to the state.
Update(t) ==
    \E h \in Handles : \E plan \in Plans(h) :
        /\ state[h].present
        /\ Free(h)
        /\ Start(t, "Update", <<>>, [NoLoc EXCEPT !.handle = h, !.data = plan],
                 [NoResp EXCEPT !.state = plan])

\* Delete: the stored state is read and HasSeat(gitUserID) called.
StartDelete(t) ==
    \E h \in Handles :
        /\ state[h].present
        /\ Free(h)
        /\ Start(t, "Delete", HasSeatCall \o <<"Delete:checked">>,
                 [NoLoc EXCEPT !.handle = h, !.gitUserID = state[h].git_user_id],
                 [NoResp EXCEPT !.state = state[h]])

\* Mutant of DeleteBranch: the seat is unassigned whatever the roster says.
DeleteBranchAlways(r) == IF ~r.ok THEN "error" ELSE "unassign"

\* What Delete does with HasSeat's result r.
DeleteBranch(r) ==
    IF ~r.ok THEN "error" ELSE IF ~r.has THEN "skip" ELSE "unassign"

\* Delete after HasSeat: the error diagnostic, the return without a call
\* when the seat is unassigned already, or UnassignSeat(gitUserID).
DeleteChecked(t) ==
    /\ Top(t) = "Delete:checked"
    /\ LET b == DeleteBranch(ret[t])
       IN  /\ IF b = "error"
              THEN Fail(t, "Error Checking Seat Assignment") /\ UNCHANGED loc
              ELSE IF b = "skip"
              THEN Succeed(t, resp[t].state) /\ UNCHANGED loc
              ELSE /\ Goto(t, UnassignSeatCall \o <<"Delete:unassigned">>)
                   /\ loc' = [loc EXCEPT ![t].path = "/seats/unassign"]
                   /\ UNCHANGED resp
           /\ g' = [g EXCEPT ![t].roster = ret[t].users,
                             ![t].unassigns = IF b = "unassign" THEN @ + 1 ELSE @]
    /\ UNCHANGED <<cfg, faults, seats, cache, readers, writer, op, state,
                   hist, late>>

\* Mutant of DeleteUnassigned: the error of UnassignSeat is dropped.
DeleteUnassignedIgnoresError(t) ==
    /\ Top(t) = "Delete:unassigned"
    /\ Succeed(t, resp[t].state)
    /\ UNCHANGED <<cfg, faults, seats, cache, readers, writer, op, loc, state,
                   g, hist, late>>

\* Delete after UnassignSeat: the error diagnostic, or the plain return.
DeleteUnassigned(t) ==
    /\ Top(t) = "Delete:unassigned"
    /\ IF ~ret[t].ok
       THEN Fail(t, "Error Unassigning Seat")
       ELSE Succeed(t, resp[t].state)
    /\ UNCHANGED <<cfg, faults, seats, cache, readers, writer, op, loc, state,
                   g, hist, late>>

\* ImportState: GetGitUserID(req.ID) is called.
StartImportState(t) ==
    \E h \in Handles :
        /\ ~state[h].present
        /\ Free(h)
        /\ Start(t, "ImportState", <<"GetGitUserID", "ImportState:resolved">>,
                 [NoLoc EXCEPT !.handle = h], NoResp)

\* ImportState after GetGitUserID.
ImportResolved(t) ==
    /\ Top(t) = "ImportState:resolved"
    /\ IF ~ret[t].ok
       THEN Fail(t, "Error Importing Seat") /\ UNCHANGED loc
       ELSE /\ Goto(t, HasSeatCall \o <<"ImportState:checked">>)
            /\ loc' = [loc EXCEPT ![t].gitUserID = ret[t].id]
            /\ UNCHANGED resp
    /\ g' = [g EXCEPT ![t] = Forget(@)]
    /\ UNCHANGED <<cfg, faults, seats, cache, readers, writer, op, state,
                   hist, late>>

\* Mutant of ImportChecked: the attributes are set whatever HasSeat found.
ImportCheckedAnySeat(t) ==
    /\ Top(t) = "ImportState:checked"
    /\ IF ~ret[t].ok
       THEN Fail(t, "Error Checking Seat")
       ELSE Succeed(t, Tracked(loc[t].handle, loc[t].gitUserID))
    /\ g' = [g EXCEPT ![t].roster = ret[t].users]
    /\ UNCHANGED <<cfg, faults, seats, cache, readers, writer, op, loc, state,
                   hist, late>>

\* ImportState after HasSeat: an error diagnostic, or the three attributes.
ImportChecked(t) ==
    /\ Top(t) = "ImportState:checked"
    /\ IF ~ret[t].ok
       THEN Fail(t, "Error Checking Seat")
       ELSE IF ~ret[t].has
       THEN Fail(t, "Seat Not Found")
       ELSE Succeed(t, Tracked(loc[t].handle, loc[t].gitUserID))
    /\ g' = [g EXCEPT ![t].roster = ret[t].users]
    /\ UNCHANGED <<cfg, faults, seats, cache, readers, writer, op, loc, state,
                   hist, late>>

\* The roster is changed by someone else.
ExternalMutation ==
    /\ \E id \in DOMAIN seats, s \in SeatStates :
          /\ s # seats[id]
          /\ seats' = [seats EXCEPT ![id] = s]
          /\ g' = [t \in Threads |->
                      IF /\ op[t] \in ResourceOps
                         /\ id = Itoa(GitHubUserID(loc[t].handle))
                      THEN [g[t] EXCEPT !.seatBefore = s]
                      ELSE g[t]]
    /\ UNCHANGED <<cfg, faults, cache, readers, writer, op, stack, loc, ret,
                   resp, state, hist, late>>

HandlerStep(t) ==
    \/ StartCreate(t)
    \/ CreateResolved(t)
    \/ CreateChecked(t)
    \/ CreateAssigned(t)
    \/ StartRead(t)
    \/ ReadChecked(t)
    \/ Update(t)
    \/ StartDelete(t)
    \/ DeleteChecked(t)
    \/ DeleteUnassigned(t)
    \/ StartImportState(t)
    \/ ImportResolved(t)
    \/ ImportChecked(t)
    \/ GetGitUserIDAttempt(t)
    \/ ClientStep(t)
    \/ Return(t)

\* A session of the provider: the resources of the handles are tracked or
\* not, the roster is in any state, the cache is empty.
Init ==
    /\ InitCommon
    /\ cfg \in SessionConfigs
    /\ faults = SessionFaults
    /\ seats \in UpstreamStates(Ids)
    /\ state \in StoredStates

\* The handlers run one at a time, and nobody else changes the roster.
NextQuiet == HandlerStep(1)

SpecQuiet == Init /\ [][NextQuiet]_vars

\* The handlers run one at a time while the roster changes under them.
Next == HandlerStep(1) \/ ExternalMutation

Spec == Init /\ [][Next]_vars

\* The handlers run one at a time and the roster changes between them.
MutationBetween == Idle(1) /\ ExternalMutation

NextBetween == HandlerStep(1) \/ MutationBetween

SpecBetween == Init /\ [][NextBetween]_vars

\* ------------------------------------- concurrent Create, Read and Delete
ReconcilerStep(t) ==
    \/ StartCreate(t)
    \/ CreateResolved(t)
    \/ CreateChecked(t)
    \/ CreateAssigned(t)
    \/ StartRead(t)
    \/ ReadChecked(t)
    \/ StartDelete(t)
    \/ DeleteChecked(t)
    \/ DeleteUnassigned(t)
    \/ GetGitUserIDAttempt(t)
    \/ ClientStep(t)
    \/ Return(t)

\* The session of an upstream that does not fail.
InitConcurrent ==
    /\ InitCommon
    /\ cfg \in SessionConfigs
    /\ faults = NoFaults
    /\ seats \in UpstreamStates(Ids)
    /\ state \in StoredStates

\* The threads run Create, Read and Delete at once, on different
\* resources, and nobody else changes the roster.
NextConcurrent == \E t \in Threads : ReconcilerStep(t)

SpecConcurrent == InitConcurrent /\ [][NextConcurrent]_vars

\* ------------------------------------------- the retry loops on their own
Paths == {"/seats/", "/seats/assign", "/seats/unassign"}

CallDoRequest(t) ==
    \E path \in Paths, id \in Ids :
        Start(t, "doRequest", <<"doRequest">>,
              [NoLoc EXCEPT !.path = path, !.gitUserID = id], NoResp)

CallGetGitUserID(t) ==
    \E h \in Handles :
        Start(t, "GetGitUserID", <<"GetGitUserID">>,
              [NoLoc EXCEPT !.handle = h], NoResp)

\* The retry loops under every retry configuration; the roster starts with
\* every user known and no seat assigned.
InitRetry ==
    /\ InitCommon
    /\ cfg \in RetryConfigs
    /\ faults = AllFaults
    /\ seats = [id \in Ids |-> "unassigned"]
    /\ state = [h \in Handles |-> NoState]

NextRetry ==
    \/ CallDoRequest(1)
    \/ CallGetGitUserID(1)
    \/ DoRequestAttempt(1)
    \/ GetGitUserIDAttempt(1)
    \/ Return(1)

SpecRetry == InitRetry /\ [][NextRetry]_vars

\* ------------------------------------------- calculateBackoff on its own
CallCalculateBackoff(t) ==
    \E attempt \in 0..MaxAttempt :
        Start(t, "calculateBackoff", <<"calculateBackoff">>,
              [NoLoc EXCEPT !.attempt = attempt], NoResp)

calculateBackoffReturn(t) ==
    /\ Top(t) = "calculateBackoff"
    /\ \E delay \in calculateBackoff(cfg, loc[t].attempt) :
          ReturnWith(t, [NoRet EXCEPT !.delay = delay])
    /\ UNCHANGED <<cfg, faults, seats, cache, readers, writer, op, loc, resp,
                   state, g, hist, late>>

InitBackoff ==
    /\ InitCommon
    /\ cfg \in BackoffConfigs
    /\ faults = AllFaults
    /\ seats = [id \in Ids |-> "unassigned"]
    /\ state = [h \in Handles |-> NoState]

NextBackoff ==
    \/ CallCalculateBackoff(1)
    \/ calculateBackoffReturn(1)
    \/ Return(1)

SpecBackoff == InitBackoff /\ [][NextBackoff]_vars

\* =================================================================
\* Claims
\* =================================================================
InDoRequest(t) == g[t].fn = "doRequest"
InGetGitUserID(t) == g[t].fn = "GetGitUserID"
\* The call of the retry loop has returned and nobody has used its result.
Returned(t) == g[t].done
Permanent(c, out) ==
    out.net = "ok" /\ out.status >= 400 /\ out.status \notin c.RetryableStatusCodes
Success(c, out) ==
    out.net = "ok" /\ out.status < 400 /\ out.status \notin c.RetryableStatusCodes

\* C1: doRequest makes at most MaxRetries+1 attempts.  When MaxRetries+1
\* outcomes were transient it has returned a failure, and it gives up on
\* transient outcomes only then; when k <= MaxRetries transient outcomes are
\* followed by a status < 400 it has returned success with the payload of
\* that response after exactly k+1 attempts.
C1_RetryExhaustion ==
    \A t \in Threads :
        InDoRequest(t) =>
            /\ g[t].attempts <= cfg.MaxRetries + 1
            /\ g[t].transient = cfg.MaxRetries + 1 => Returned(t) /\ ~ret[t].ok
            /\ Returned(t) /\ Transient(cfg, g[t].last) =>
                   g[t].transient = cfg.MaxRetries + 1
            /\ g[t].attempts > 0 /\ Success(cfg, g[t].last) =>
                   /\ Returned(t)
                   /\ ret[t].ok
                   /\ ret[t].body = g[t].last.body
                   /\ g[t].transient <= cfg.MaxRetries
                   /\ g[t].attempts = g[t].transient + 1

\* MaxRetries transient outcomes, then success on the last attempt.
C1_Witness ==
    \E t \in Threads :
        /\ InDoRequest(t) /\ Returned(t) /\ ret[t].ok
        /\ cfg.MaxRetries = RetryBound
        /\ g[t].transient = cfg.MaxRetries
        /\ g[t].attempts = cfg.MaxRetries + 1

\* C2: in doRequest a response with a status >= 400 that is not retryable
\* ends the call with a failure: the loop is left, so no attempt and no
\* sleep follows; the sleeps performed are those before the attempts made,
\* none when it is the first response.
C2_NonRetryableShortCircuit ==
    \A t \in Threads :
        InDoRequest(t) /\ Permanent(cfg, g[t].last) =>
            /\ Returned(t)
            /\ Top(t) # "doRequest"
            /\ ~ret[t].ok
            /\ Len(g[t].sleeps) = g[t].attempts - 1
            /\ g[t].attempts = 1 => g[t].sleeps = <<>>

\* A single 400 under the largest MaxRetries.
C2_Witness ==
    \E t \in Threads :
        /\ InDoRequest(t) /\ Returned(t)
        /\ g[t].last.status = 400 /\ 400 \notin cfg.RetryableStatusCodes
        /\ g[t].attempts = 1
        /\ cfg.MaxRetries = RetryBound

NotFoundError == <<"GitHub user not found">>

\* C3: in GetGitUserID a 404 ends the call with the not-found error under
\* every configuration, also when 404 is in the retryable set.  A retryable
\* status other than 404 (503 by default) is retried: the call goes on while
\* attempts remain, and after MaxRetries+1 attempts it fails with the
\* exhausted-retries error, which differs from the not-found error.
C3_NotFoundNeverRetried ==
    \A t \in Threads :
        InGetGitUserID(t) =>
            /\ g[t].last.net = "ok" /\ g[t].last.status = 404 =>
                   /\ Returned(t)
                   /\ Top(t) # "GetGitUserID"
                   /\ ~ret[t].ok
                   /\ ret[t].err = NotFoundError
            /\ /\ g[t].last.net = "ok"
               /\ g[t].last.status # 404
               /\ g[t].last.status \in cfg.RetryableStatusCodes
               => IF g[t].attempts <= cfg.MaxRetries
                  THEN ~Returned(t) /\ Top(t) = "GetGitUserID"
                  ELSE /\ Returned(t)
                       /\ g[t].attempts = cfg.MaxRetries + 1
                       /\ ~ret[t].ok
                       /\ Head(ret[t].err) = "GitHub API request failed after retries"
                       /\ ret[t].err # NotFoundError

\* A 503 is retried and the 404 that follows it is not, with 404 in the
\* retryable set.
C3_Witness ==
    \E t \in Threads :
        /\ InGetGitUserID(t) /\ Returned(t)
        /\ {404, 503} \subseteq cfg.RetryableStatusCodes
        /\ g[t].attempts = 2 /\ cfg.MaxRetries = RetryBound
        /\ g[t].last.status = 404
        /\ ret[t].err = NotFoundError

\* The roster a handler got from HasSeat's GetSeats has a record of the id
\* with a seat assigned.
Got(t) == g[t].roster # <<>>
Assigned(users, id) ==
    \E i \in 1..Len(users) : users[i].git_user_id = id /\ users[i].seat_assigned
Listed(users, id) ==
    \E i \in 1..Len(users) : users[i].git_user_id = id
NoError(t) == resp[t].diag = <<>>

\* C4: when the roster Create got from HasSeat has the resolved id with a
\* seat assigned, Create has ended without an assign call (no AssignSeat, no
\* POST), without an error, and with the resolved id as the stored id.
C4_IdempotentCreate ==
    \A t \in Threads :
        op[t] = "Create" /\ Got(t) /\ Assigned(g[t].roster[1], loc[t].gitUserID) =>
            /\ Finished(t)
            /\ g[t].assigns = 0 /\ g[t].posts = 0
            /\ NoError(t)
            /\ loc[t].gitUserID = Itoa(GitHubUserID(loc[t].handle))
            /\ resp[t].state.present
            /\ resp[t].state.id = loc[t].gitUserID
            /\ resp[t].state.git_user_id = loc[t].gitUserID

C4_Witness ==
    \E t \in Threads :
        /\ op[t] = "Create" /\ Finished(t) /\ Got(t)
        /\ Assigned(g[t].roster[1], loc[t].gitUserID)
        /\ resp[t].state.id = <<4, 2>>

\* C5: when the roster Delete got from the cache has the stored id without a
\* seat, or does not have it, Delete has ended without an unassign call (no
\* UnassignSeat, no POST) and without an error diagnostic.
C5_IdempotentDelete ==
    \A t \in Threads :
        op[t] = "Delete" /\ Got(t) /\ ~Assigned(g[t].roster[1], loc[t].gitUserID) =>
            /\ Finished(t)
            /\ g[t].unassigns = 0 /\ g[t].posts = 0
            /\ NoError(t)

\* Delete of an id the roster does not have.
C5_Witness ==
    \E t \in Threads :
        /\ op[t] = "Delete" /\ Finished(t) /\ Got(t)
        /\ loc[t].gitUserID = state[loc[t].handle].git_user_id
        /\ ~Listed(g[t].roster[1], loc[t].gitUserID)
        /\ g[t].roster[1] # <<>>

\* C9: Create writes no state on failure: while Create runs the response
\* state is empty unless Create has ended without an error, and then it is
\* the resolved id; a Create that ends with an error leaves nothing stored.
C9_NoPartialState ==
    \A t \in Threads :
        op[t] = "Create" =>
            /\ resp[t].state.present =>
                   /\ Finished(t) /\ NoError(t)
                   /\ resp[t].state = Tracked(loc[t].handle, loc[t].gitUserID)
            /\ Finished(t) /\ ~NoError(t) =>
                   /\ resp[t].state = NoState
                   /\ Persisted(op[t], resp[t]) = NoState
            /\ Finished(t) /\ NoError(t) => resp[t].state.present

\* The assign call fails after the id was resolved.
C9_Witness ==
    \E t \in Threads :
        /\ op[t] = "Create" /\ Finished(t)
        /\ resp[t].diag = <<"Error Assigning Seat">>
        /\ loc[t].gitUserID # NoId
        /\ ~resp[t].state.present

\* C10: Read of an id the roster does not have, or has without a seat,
\* removes the resource and raises no error; Read raises an error exactly
\* when it got no roster, and then keeps the resource; when the id has a
\* seat the stored state is written back unchanged.
C10_ReadDrop ==
    \A t \in Threads :
        op[t] = "Read" /\ Finished(t) =>
            LET id == loc[t].gitUserID
                stored == state[loc[t].handle]
            IN  /\ Got(t) /\ ~Assigned(g[t].roster[1], id) =>
                       NoError(t) /\ Persisted(op[t], resp[t]) = NoState
                /\ ~NoError(t) <=> ~Got(t)
                /\ ~NoError(t) => Persisted(op[t], resp[t]) = stored
                /\ Got(t) /\ Assigned(g[t].roster[1], id) =>
                       NoError(t) /\ Persisted(op[t], resp[t]) = stored

\* Read of an id that is not in the roster.
C10_Witness ==
    \E t \in Threads :
        /\ op[t] = "Read" /\ Finished(t) /\ Got(t)
        /\ ~Listed(g[t].roster[1], loc[t].gitUserID)
        /\ resp[t].state = NoState
        /\ state[loc[t].handle].present

\* Two calls of GetSeats that start against an empty cache and overlap, with
\* no invalidation while they run, both returned.
Pair(t1, t2) ==
    /\ t1 # t2
    /\ op[t1] \in Getters /\ op[t2] \in Getters
    /\ Finished(t1) /\ Finished(t2)
    /\ g[t1].startedEmpty /\ g[t2].startedEmpty
    /\ t1 \in g[t2].peers /\ t2 \in g[t1].peers
    /\ ~g[t1].cleared /\ ~g[t2].cleared

\* A call of GetSeats that starts against an empty cache and overlaps with
\* no other, returned.
Alone(t) ==
    /\ op[t] \in Getters /\ Finished(t)
    /\ g[t].startedEmpty /\ g[t].peers = {} /\ ~g[t].cleared

\* C6 as stated: two concurrent GetSeats calls against an empty cache
\* trigger exactly one roster fetch and both get a roster.
C6_ExactlyOneFetch ==
    \A t1, t2 \in Threads :
        Pair(t1, t2) =>
            /\ g[t1].fetches + g[t2].fetches = 1
            /\ ret[t1].ok /\ ret[t2].ok

\* C6, amended: two concurrent GetSeats calls against an empty cache trigger
\* exactly one roster fetch, and both get that roster, exactly when the
\* fetch succeeds; when it fails nothing is cached, its caller gets the
\* error and the other caller fetches once more.  No caller fetches twice.
\* A GetSeats alone against an empty cache (the state InvalidateSeatsCache
\* leaves) triggers exactly one fetch.
C6_CacheCoherence ==
    /\ \A t1, t2 \in Threads :
          Pair(t1, t2) =>
              /\ g[t1].fetches <= 1 /\ g[t2].fetches <= 1
              /\ g[t1].fetches + g[t2].fetches >= 1
              /\ g[t1].fetches + g[t2].fetches = 1 <=> ret[t1].ok /\ ret[t2].ok
              /\ ret[t1].ok /\ ret[t2].ok => ret[t1].users = ret[t2].users
    /\ \A t \in Threads : Alone(t) => g[t].fetches = 1

\* Both calls return the roster of one fetch.
C6_Witness ==
    \E t1, t2 \in Threads :
        /\ Pair(t1, t2)
        /\ g[t1].fetches = 1 /\ g[t2].fetches = 0
        /\ ret[t1].ok /\ ret[t2].ok
        /\ cache = ret[t2].users

\* A successful AssignSeat or UnassignSeat has returned.
Mutated(t) ==
    op[t] \in {"AssignSeat", "UnassignSeat"} /\ Finished(t) /\ ret[t].ok

\* C7: once a successful AssignSeat or UnassignSeat has returned, the cache
\* is empty or holds a roster read after the upstream applied the change,
\* and no roster read before it is waiting to be stored.
C7_MutationInvalidates ==
    \A t \in Threads :
        Mutated(t) =>
            /\ cache = <<>> \/ t \notin late[0]
            /\ \A x \in Threads : Holds(x) => t \notin late[x]

\* A GetSeats that ran across the invalidation has filled the cache again,
\* with the seat the AssignSeat assigned.
C7_Witness ==
    \E t, u \in Threads :
        /\ Mutated(t) /\ op[t] = "AssignSeat"
        /\ op[u] \in Getters /\ Finished(u) /\ g[u].cleared
        /\ cache # <<>>
        /\ Assigned(cache[1], loc[t].gitUserID)

\* C8 as stated: a Create that retries a failed Create sends no assign call
\* for an id whose seat the upstream has assigned already.
C8_RetryNeverDoubleAssigns ==
    \A t \in Threads :
        op[t] = "Create" /\ hist[loc[t].handle] => ~g[t].assignedAtCall

\* C11: with nobody else changing the roster, a Create that starts with the
\* seat of its id absent or unassigned makes exactly one AssignSeat call
\* once HasSeat has answered; when it ends without error the seat is
\* assigned upstream and the cache is empty, so that the next read fetches
\* a roster with the id assigned; the Read that follows it fetches that
\* roster and keeps the resource.
C11_EndToEnd ==
    \A t \in Threads :
        /\ op[t] = "Create" /\ g[t].seatBefore \in {"absent", "unassigned"} =>
              /\ Got(t) => g[t].assigns = 1
              /\ Finished(t) /\ NoError(t) =>
                    /\ g[t].assigns = 1
                    /\ cache = <<>>
                    /\ Assigned(Roster(seats), loc[t].gitUserID)
        /\ op[t] = "Read" /\ g[t].afterCreate /\ Finished(t) /\ NoError(t) =>
              /\ g[t].fetches = 1
              /\ Assigned(g[t].roster[1], loc[t].gitUserID)
              /\ resp[t].state.present
              /\ resp[t].state.id = loc[t].gitUserID

\* The Read after the Create of an absent user has kept the resource.
C11_Witness ==
    \E t \in Threads :
        /\ op[t] = "Read" /\ g[t].afterCreate /\ Finished(t) /\ NoError(t)
        /\ resp[t].state.present
        /\ hist[loc[t].handle] = FALSE
        /\ seats[loc[t].gitUserID] = "assigned"

\* min(base_delay * 2^attempt, max_delay), in the integers.
ClampedDelay(c, attempt) ==
    LET d == c.BaseDelay * Pow2(attempt)
    IN  IF d < c.MaxDelay THEN d ELSE c.MaxDelay

\* C12 as stated: for every attempt >= 0 calculateBackoff(attempt) is
\* min(base_delay * 2^attempt, max_delay), never negative, and never below
\* base_delay when base_delay <= max_delay.
C12_BackoffIsClampedPower ==
    \A t \in Threads :
        op[t] = "calculateBackoff" /\ Finished(t) =>
            /\ ret[t].delay = ClampedDelay(cfg, loc[t].attempt)
            /\ ret[t].delay >= 0
            /\ cfg.BaseDelay <= cfg.MaxDelay => ret[t].delay >= cfg.BaseDelay

SeatNotFound == <<"Seat Not Found">>

\* C13: ImportState makes no assign or unassign call.  When it ends without
\* error the handle was resolved, the roster HasSeat used has the resolved
\* id with a seat assigned, and id, github_id and git_user_id are set; when
\* it ends with an error none of them is.  The error is "Seat Not Found"
\* exactly when HasSeat answered and found no assigned seat.
C13_Import ==
    \A t \in Threads :
        op[t] = "ImportState" =>
            /\ g[t].assigns = 0 /\ g[t].unassigns = 0 /\ g[t].posts = 0
            /\ loc[t].path \notin {"/seats/assign", "/seats/unassign"}
            /\ Finished(t) =>
                  /\ IF NoError(t)
                     THEN /\ loc[t].gitUserID = Itoa(GitHubUserID(loc[t].handle))
                          /\ Got(t)
                          /\ Assigned(g[t].roster[1], loc[t].gitUserID)
                          /\ resp[t].state = Tracked(loc[t].handle, loc[t].gitUserID)
                     ELSE /\ resp[t].state = NoState
                          /\ Len(resp[t].diag) = 1
                  /\ resp[t].diag = SeatNotFound <=>
                        Got(t) /\ ~Assigned(g[t].roster[1], loc[t].gitUserID)

\* The import of a user the roster lists without a seat has failed.
C13_Witness ==
    \E t \in Threads :
        /\ op[t] = "ImportState" /\ Finished(t)
        /\ resp[t].diag = SeatNotFound
        /\ Listed(g[t].roster[1], loc[t].gitUserID)
        /\ resp[t].state = NoState

Mutations == {"AssignSeat", "UnassignSeat"}
AfterRequest == {"AssignSeat:afterRequest", "UnassignSeat:afterRequest"}
\* Thread t takes the step.
Moves(t) == stack'[t] # stack[t] \/ loc'[t] # loc[t]
\* doRequest has returned a response < 400 that says success: false.
LogicalFailure(r) == r.ok /\ r.body.valid /\ ~r.body.success
Confirmed(r) == r.ok /\ r.body.valid /\ r.body.success
FailedError(t) ==
    IF op[t] = "AssignSeat" THEN <<"seat assignment failed">>
    ELSE <<"seat unassignment failed">>

\* C14: in a call of AssignSeat or UnassignSeat, when doRequest has returned
\* a response that says success: false, or an error, the call returns an
\* error (for success: false, the operation-failed error) and the step
\* leaves the cache as it was; no step of the call before
\* InvalidateSeatsCache changes the cache, and InvalidateSeatsCache is
\* entered only from a response that says success: true.
C14_LogicalFailure ==
    [][\A t \in Threads :
          op[t] \in Mutations /\ Moves(t) =>
              /\ Top(t) \in {"doRequest"} \cup AfterRequest => cache' = cache
              /\ Top(t) \in AfterRequest /\ ~Confirmed(ret[t]) =>
                    /\ stack'[t] = <<>>
                    /\ ~ret'[t].ok
                    /\ LogicalFailure(ret[t]) => ret'[t].err = FailedError(t)
              /\ Top(t) \in AfterRequest /\ Confirmed(ret[t]) =>
                    stack'[t] = <<"InvalidateSeatsCache">>
              /\ stack'[t] = <<"InvalidateSeatsCache">> =>
                    Top(t) \in AfterRequest /\ Confirmed(ret[t])
      ]_vars

\* AssignSeat has returned the operation-failed error and the cache holds
\* the roster it held.
C14_Witness ==
    \E t \in Threads :
        /\ op[t] = "AssignSeat" /\ Finished(t)
        /\ ~ret[t].ok /\ ret[t].err = <<"seat assignment failed">>
        /\ cache # <<>>
        /\ seats[loc[t].gitUserID] # "assigned"

\* C15 as stated: whatever was done to the roster before Create ran, a
\* Create that ends without error leaves the seat of the resolved id
\* assigned upstream, with the resolved id stored.
C15_CreateLeavesSeatAssigned ==
    \A t \in Threads :
        op[t] = "Create" /\ Finished(t) /\ NoError(t) =>
            /\ seats[loc[t].gitUserID] = "assigned"
            /\ resp[t].state.id = Itoa(GitHubUserID(loc[t].handle))

\* C15, amended: a Create that ends without error has stored the resolved
\* id, and it made the assign call or the roster it consulted has the id
\* assigned.  The seat is assigned upstream when Create returns if Create
\* made the assign call or fetched the roster itself; a Create that skips
\* the call on a cached roster relies on that roster.
C15_CreatePostcondition ==
    \A t \in Threads :
        op[t] = "Create" /\ Finished(t) /\ NoError(t) =>
            /\ resp[t].state.id = Itoa(GitHubUserID(loc[t].handle))
            /\ Got(t)
            /\ g[t].assigns = 1 \/ Assigned(g[t].roster[1], loc[t].gitUserID)
            /\ g[t].assigns = 1 \/ g[t].fetches = 1 =>
                  seats[loc[t].gitUserID] = "assigned"

\* Create has assigned the seat of a user who was removed from the roster
\* after the cached roster was fetched.
C15_Witness ==
    \E t \in Threads :
        /\ op[t] = "Create" /\ Finished(t) /\ NoError(t)
        /\ g[t].fetches = 0 /\ g[t].assigns = 1
        /\ Listed(g[t].roster[1], loc[t].gitUserID)
        /\ g[t].seatBefore = "absent"
        /\ seats[loc[t].gitUserID] = "assigned"

\* C16 as stated: a Delete that ends without error leaves the seat of the
\* stored id not assigned upstream, also when the roster was changed after
\* the cached roster was fetched.
C16_DeleteLeavesSeatUnassigned ==
    \A t \in Threads :
        op[t] = "Delete" /\ Finished(t) /\ NoError(t) =>
            seats[loc[t].gitUserID] # "assigned"

\* C16, amended: a Delete that ends without error made the unassign call or
\* the roster it consulted has no assigned seat for the stored id.  The
\* seat is not assigned upstream when Delete returns if Delete made the
\* unassign call or fetched the roster itself; a Delete that skips the call
\* on a cached roster relies on that roster.
C16_DeletePostcondition ==
    \A t \in Threads :
        op[t] = "Delete" /\ Finished(t) /\ NoError(t) =>
            /\ Got(t)
            /\ g[t].unassigns = 1 \/ ~Assigned(g[t].roster[1], loc[t].gitUserID)
            /\ g[t].unassigns = 1 \/ g[t].fetches = 1 =>
                  seats[loc[t].gitUserID] # "assigned"

\* Delete has unassigned, on a cached roster, a seat that was assigned when
\* it started.
C16_Witness ==
    \E t \in Threads :
        /\ op[t] = "Delete" /\ Finished(t) /\ NoError(t)
        /\ g[t].fetches = 0 /\ g[t].unassigns = 1
        /\ g[t].seatBefore = "assigned"
        /\ seats[loc[t].gitUserID] = "unassigned"

GetSeatsFrames ==
    {"GetSeats", "GetSeats:rlocked", "GetSeats:lock", "GetSeats:locked",
     "GetSeats:afterRequest"}
Calls(t, frame) == \E i \in 1..Len(stack[t]) : stack[t][i] = frame
\* A call of GetSeats or HasSeat that started with a roster in the cache,
\* and no invalidation since.
OnStored(t) == op[t] \in Getters /\ ~g[t].startedEmpty /\ ~g[t].cleared

\* C17: the cache changes only by a store into the empty cache or by an
\* invalidation.  A call of GetSeats that starts with a roster stored, and
\* runs without an invalidation, makes no upstream request and returns the
\* stored roster, with the cache and the upstream left as they are.
\* InvalidateSeatsCache makes no upstream request and calls nothing.
C17_CacheHit ==
    /\ [](\A t \in Threads :
            /\ OnStored(t) =>
                  /\ g[t].fetches = 0 /\ g[t].attempts = 0
                  /\ ~Calls(t, "doRequest")
            /\ op[t] = "InvalidateSeatsCache" =>
                  /\ g[t].fetches = 0 /\ g[t].attempts = 0
                  /\ ~Calls(t, "doRequest") /\ ~Calls(t, "GetSeats"))
    /\ [][/\ cache' # cache => cache = <<>> \/ cache' = <<>>
          /\ \A t \in Threads :
                /\ OnStored(t)
                /\ Top(t) \in GetSeatsFrames
                /\ Len(stack'[t]) < Len(stack[t])
                => /\ ret'[t].ok
                   /\ ret'[t].users = cache
                   /\ cache' = cache
                   /\ seats' = seats
      ]_vars

\* Every thread has got the stored roster from a call that made no fetch.
C17_Witness ==
    /\ cache # <<>>
    /\ \A t \in Threads :
          /\ op[t] = "GetSeats" /\ Finished(t) /\ OnStored(t)
          /\ g[t].fetches = 0
          /\ ret[t].users = cache

\* Thread t is between the call of doRequest for the roster and the store
\* of its result.
InFetch(t) == Calls(t, "GetSeats:afterRequest")

\* C18: a thread that fetches the roster holds the write lock from before
\* the request until it has stored the result: no other thread fetches,
\* none is inside InvalidateSeatsCache's critical section, and none reads.
C18_OneFetchInFlight ==
    \A t \in Threads :
        InFetch(t) =>
            /\ writer = t
            /\ readers = {}
            /\ \A u \in Threads \ {t} :
                  /\ ~InFetch(u)
                  /\ Top(u) \notin {"InvalidateSeatsCache:locked", "GetSeats:locked",
                                   "GetSeats:rlocked"}

\* One thread has the roster in hand, another waits to fetch or to
\* invalidate.
C18_Witness ==
    \E t, u \in Threads :
        /\ Top(t) = "GetSeats:afterRequest"
        /\ Top(u) \in {"GetSeats:lock", "InvalidateSeatsCache"}
        /\ cache = <<>>

RetryLoops == {"doRequest", "GetGitUserID"}

\* C19: in doRequest and in GetGitUserID the sleeps made are one less than
\* the attempts made, none before the first attempt, and the n-th sleep,
\* which precedes the n-th retry, lasts min(BaseDelay * 2^(n-1), MaxDelay):
\* BaseDelay before the first retry, twice that before the second, each at
\* most MaxDelay.
C19_SleepSchedule ==
    \A t \in Threads :
        /\ op[t] \in RetryLoops /\ g[t].attempts = 0 => g[t].sleeps = <<>>
        /\ g[t].fn \in RetryLoops /\ g[t].attempts > 0 =>
              /\ Len(g[t].sleeps) = g[t].attempts - 1
              /\ \A n \in 1..Len(g[t].sleeps) :
                    g[t].sleeps[n] = ClampedDelay(cfg, n - 1)
              /\ Len(g[t].sleeps) >= 1 =>
                    g[t].sleeps[1] = IF cfg.BaseDelay < cfg.MaxDelay
                                     THEN cfg.BaseDelay ELSE cfg.MaxDelay
              /\ Len(g[t].sleeps) >= 2 =>
                    g[t].sleeps[2] = IF 2 * cfg.BaseDelay < cfg.MaxDelay
                                     THEN 2 * cfg.BaseDelay ELSE cfg.MaxDelay

\* GetGitUserID has made its second retry, after a sleep cut to MaxDelay.
C19_Witness ==
    \E t \in Threads :
        /\ g[t].fn = "GetGitUserID" /\ g[t].attempts = 3
        /\ cfg.BaseDelay = 2
        /\ g[t].sleeps = <<2, 3>>

OwnId(t) == Itoa(GitHubUserID(loc[t].handle))
Bit(b) == IF b THEN 1 ELSE 0

\* What an operation that runs alone does, from the seat of its id when it
\* starts: the seat it leaves, the assign and unassign calls it makes, and
\* whether the resource is tracked afterwards.
Alone20(name, before) ==
    IF name = "Create"
    THEN [seat |-> "assigned", assigns |-> Bit(before # "assigned"),
          unassigns |-> 0, tracked |-> TRUE]
    ELSE IF name = "Read"
    THEN [seat |-> before, assigns |-> 0, unassigns |-> 0,
          tracked |-> (before = "assigned")]
    ELSE [seat |-> IF before = "assigned" THEN "unassigned" ELSE before,
          assigns |-> 0, unassigns |-> Bit(before = "assigned"),
          tracked |-> FALSE]

\* C20: with an upstream that does not fail and nobody else changing the
\* roster, however the steps of Create, Read and Delete on different
\* resources interleave, an operation that has ended has no error, has left
\* its seat, made the calls and got the result it gets when it runs alone
\* from the same seat; it makes at most one assign or unassign call, and
\* every such call names its own id.
C20_OrderIndependent ==
    \A t \in Threads :
        op[t] \in {"Create", "Read", "Delete"} =>
            /\ g[t].assigns + g[t].unassigns <= 1
            /\ g[t].posts <= 1
            /\ loc[t].path \in {"/seats/assign", "/seats/unassign"} =>
                  loc[t].gitUserID = OwnId(t)
            /\ Finished(t) =>
                  LET a == Alone20(op[t], g[t].seatBefore)
                  IN  /\ NoError(t)
                      /\ seats[OwnId(t)] = a.seat
                      /\ g[t].assigns = a.assigns
                      /\ g[t].unassigns = a.unassigns
                      /\ g[t].posts = a.assigns + a.unassigns
                      /\ Persisted(op[t], resp[t]).present = a.tracked
                      /\ a.tracked =>
                            Persisted(op[t], resp[t]) = Tracked(loc[t].handle, OwnId(t))

\* A Create and a Delete have run at once: the Create started with the
\* cache empty and used the roster the Delete fetched; each made its call.
C20_Witness ==
    \E t, u \in Threads :
        /\ op[t] = "Create" /\ Finished(t)
        /\ g[t].startedEmpty /\ g[t].fetches = 0 /\ g[t].assigns = 1
        /\ op[u] = "Delete" /\ Finished(u)
        /\ g[u].fetches = 1 /\ g[u].unassigns = 1
        /\ loc[t].handle # loc[u].handle

\* The records of the rosters the upstream can send.
SeatRecords == [git_user_id : DOMAIN seats, seat_assigned : BOOLEAN]

C22_UpdatePassThrough ==
    /\ [](\A t \in Threads :
            op[t] = "Update" =>
                /\ Finished(t)
                /\ resp[t].state = loc[t].data /\ NoError(t)
                /\ g[t].fn = "" /\ g[t].attempts = 0
                /\ g[t].fetches = 0 /\ g[t].posts = 0
                /\ g[t].assigns = 0 /\ g[t].unassigns = 0)
    /\ [][\A t \in Threads :
            /\ op'[t] = "Update" /\ op[t] # "Update" =>
                  UNCHANGED <<cache, readers, writer, seats, state>>
            /\ op[t] = "Update" /\ op'[t] # "Update" =>
                  /\ state'[loc[t].handle] = loc[t].data
                  /\ UNCHANGED <<cache, readers, writer, seats>>
      ]_vars

\* Update has been given a plan that differs from the stored state, and
\* has ended.
C22_Witness ==
    \E t \in Threads :
        /\ op[t] = "Update" /\ Finished(t)
        /\ loc[t].data # state[loc[t].handle]
        /\ resp[t].state = loc[t].data

\* The rosters a successful fetch can return: one record per user the
\* upstream knows, in the upstream's order.
CompleteRosters == {Roster(up) : up \in UpstreamStates(DOMAIN seats)}

\* The fetch of GetSeats has failed: doRequest returned an error (a
\* permanent status, retries exhausted) or a body that does not unmarshal.
FetchFailed(r) == ~r.ok \/ ~r.body.valid

\* C23: the cache holds nothing or the complete roster of one successful
\* fetch.  The step of GetSeats after its fetch starts from an empty cache;
\* when the fetch failed it leaves the cache empty, returns an error to
\* its caller and changes what no other thread has in hand; when the fetch
\* succeeded it stores the roster fetched.  A GetSeats that finds the cache
\* empty under the write lock fetches, whatever failed before it.
C23_FailedFetchNotCached ==
    /\ [](cache # <<>> => Len(cache) = 1 /\ cache[1] \in CompleteRosters)
    /\ [][\A t \in Threads :
            /\ Top(t) = "GetSeats:afterRequest" /\ stack'[t] # stack[t] =>
                 /\ cache = <<>>
                 /\ \A u \in Threads \ {t} :
                        ret'[u] = ret[u] /\ stack'[u] = stack[u]
                 /\ IF FetchFailed(ret[t])
                    THEN /\ cache' = <<>>
                         /\ ~ret'[t].ok /\ ret'[t].err # <<>>
                         /\ ret'[t].users = <<>>
                    ELSE /\ cache' = <<ret[t].body.users>>
                         /\ ret'[t].ok /\ ret'[t].users = cache'
            /\ Top(t) = "GetSeats:locked" /\ stack'[t] # stack[t] /\ cache = <<>> =>
                 /\ Top(t)' = "doRequest"
                 /\ g'[t].fetches = g[t].fetches + 1
      ]_vars

\* A thread's fetch has failed on a body that does not unmarshal, its
\* GetSeats has returned the error with the cache empty, and another
\* thread's GetSeats, come later, is in a fetch of its own.
C23_Witness ==
    \E t \in Threads, u \in Threads :
        /\ t # u
        /\ op[t] = "GetSeats" /\ Finished(t)
        /\ ret[t].err = <<"failed to unmarshal response">>
        /\ cache = <<>>
        /\ op[u] = "GetSeats" /\ InFetch(u) /\ u \notin g[t].peers

\* The frames at which a thread waits for the cache lock.
LockFrames == {"GetSeats", "GetSeats:lock", "InvalidateSeatsCache"}
InProgress(t) == op[t] # "idle" /\ stack[t] # <<>>

\* C24: a thread holds the read lock only between RLock and RUnlock of
\* GetSeats and the write lock only inside the critical sections of GetSeats
\* and InvalidateSeatsCache, never while it waits for the lock and never
\* once its call has returned; at most one kind of holder at a time; with
\* no call in progress the lock is free; and every call that has started
\* returns.
C24_Termination ==
    /\ [](\A t \in Threads :
            /\ t \in readers => Top(t) = "GetSeats:rlocked"
            /\ writer = t => Top(t) \in {"GetSeats:locked", "doRequest",
                                         "GetSeats:afterRequest",
                                         "InvalidateSeatsCache:locked"}
            /\ ~InProgress(t) => t \notin readers /\ writer # t)
    /\ [](writer \in Threads => readers = {})
    /\ []((\A t \in Threads : ~InProgress(t)) => readers = {} /\ writer = 0)
    /\ \A t \in Threads : []<>(~InProgress(t))

\* A GetSeats whose fetch failed has returned, while the other thread
\* waits for the write lock, which is free.
C24_Witness ==
    \E t \in Threads, u \in Threads :
        /\ op[t] = "GetSeats" /\ Finished(t) /\ ~ret[t].ok
        /\ Top(u) \in {"GetSeats:lock", "InvalidateSeatsCache"}
        /\ writer = 0 /\ readers = {}

\* The requests that change the upstream roster.
PostPaths == {"/seats/assign", "/seats/unassign"}
\* Thread t sends a POST in this step.
Posts(t) == g'[t].posts > g[t].posts
\* Thread t is inside a call of HasSeat.
InHasSeat(t) == Calls(t, "HasSeat:afterGetSeats")
InAssignSeat(t) == Calls(t, "AssignSeat:afterRequest")
InUnassignSeat(t) == Calls(t, "UnassignSeat:afterRequest")

\* C25: Read and ImportState call neither AssignSeat nor UnassignSeat and
\* send no POST; inside HasSeat the only request is GET /seats/.  Create
\* calls AssignSeat at most once and never UnassignSeat, Delete calls
\* UnassignSeat at most once and never AssignSeat, and the POSTs of that one
\* call are its attempts.  Every POST is sent by Create inside AssignSeat
\* to /seats/assign with the id resolved for its resource, or by Delete
\* inside UnassignSeat to /seats/unassign with the stored id; and a step of
\* a handler changes the upstream roster only if it sends such a POST, to
\* what that POST does.
C25_OnlyCreateAndDeleteMutate ==
    /\ [](\A t \in Threads :
            /\ op[t] \in {"Read", "ImportState"} =>
                  /\ g[t].assigns = 0 /\ g[t].unassigns = 0 /\ g[t].posts = 0
                  /\ ~InAssignSeat(t) /\ ~InUnassignSeat(t)
                  /\ loc[t].path \notin PostPaths
            /\ InHasSeat(t) =>
                  /\ ~InAssignSeat(t) /\ ~InUnassignSeat(t)
                  /\ Top(t) = "doRequest" => loc[t].path = "/seats/"
            /\ op[t] = "Create" =>
                  /\ g[t].unassigns = 0 /\ g[t].assigns <= 1
                  /\ g[t].posts <= g[t].assigns * (cfg.MaxRetries + 1)
                  /\ ~InUnassignSeat(t)
            /\ op[t] = "Delete" =>
                  /\ g[t].assigns = 0 /\ g[t].unassigns <= 1
                  /\ g[t].posts <= g[t].unassigns * (cfg.MaxRetries + 1)
                  /\ ~InAssignSeat(t))
    /\ [][/\ \A t \in Threads :
               Posts(t) =>
                  /\ Top(t) = "doRequest" /\ ~InHasSeat(t)
                  /\ \/ /\ op[t] = "Create" /\ InAssignSeat(t)
                        /\ loc[t].path = "/seats/assign"
                        /\ loc[t].gitUserID = OwnId(t)
                     \/ /\ op[t] = "Delete" /\ InUnassignSeat(t)
                        /\ loc[t].path = "/seats/unassign"
                        /\ loc[t].gitUserID = state[loc[t].handle].git_user_id
                  /\ seats' \in {seats, ApplyUpstream(seats, loc[t].path,
                                                      loc[t].gitUserID)}
          /\ seats' # seats /\ stack' # stack => \E t \in Threads : Posts(t)
      ]_vars

\* Create has sent the POST of its AssignSeat a second time, after a
\* transient failure, and the upstream has applied it.
C25_Witness ==
    \E t \in Threads :
        /\ op[t] = "Create" /\ g[t].assigns = 1 /\ g[t].posts = 2
        /\ g[t].last.applied
        /\ seats[loc[t].gitUserID] = "assigned"
====
